---- MODULE Spec2Model ----
(***************************************************************************)
(* State-machine model of the social-media backend: the User, Post,        *)
(* Comment and FriendRequest collections and the controllers that read and *)
(* write them (user, friend and post controllers).  Every action is one    *)
(* request handler run to completion; `resp` is the HTTP response it sent. *)
(* The handlers whose interleavings matter are also given await by await:  *)
(* `running` holds the requests that are suspended at an await.            *)
(* Documents are records, collections are functions from the identifiers   *)
(* of the stored documents, array fields are sequences.                    *)
(***************************************************************************)
EXTENDS Integers, Sequences, FiniteSets, TLC

\* ------------------------------------------------------------------ bounds
MaxUsers == 2
MaxPosts == 2
MaxComments == 1
MaxRequests == 2
\* accounts ever registered where a third party is needed, pages and page
\* sizes a feed is asked for
MaxAccounts == 3
MaxPage == 3
MaxLimit == 2
\* requests being handled at the same time
MaxCalls == 2

UserIds == 1..MaxUsers
AccountIds == 1..MaxAccounts
CallIds == 1..MaxCalls
PostIds == 1..MaxPosts
CommentIds == 1..MaxComments
RequestIds == 1..MaxRequests

\* A falsy `receiver` in the request body (undefined, null, "").
NoReceiver == 0

Names == {"ann", "bob"}
Contents == {"old", "new"}

VARIABLES users, posts, comments, requests, nextUser, nextPost, nextComment,
          nextRequest, resp, running

vars == <<users, posts, comments, requests, nextUser, nextPost, nextComment,
          nextRequest, resp, running>>

\* ------------------------------------------------------- array primitives
Range(s) == {s[i] : i \in 1..Len(s)}

\* MongooseArray.includes / Array.includes
Includes(arr, x) == \E i \in 1..Len(arr) : arr[i] = x

\* $pull and MongooseArray.pull: every occurrence of x is removed
Pull(arr, x) == SelectSeq(arr, LAMBDA e : e # x)

\* MongooseArray.push
Push(arr, x) == Append(arr, x)

\* $addToSet: appended unless already present
AddToSet(arr, x) == IF Includes(arr, x) THEN arr ELSE Append(arr, x)

\* number of occurrences of x in the array
Count(arr, x) == Cardinality({i \in 1..Len(arr) : arr[i] = x})

\* Model.findByIdAndDelete / deleteOne on a collection
Remove(coll, id) == [k \in DOMAIN coll \ {id} |-> coll[k]]

\* Model.create: a new document under a fresh identifier
Insert(coll, id, doc) == [k \in DOMAIN coll \cup {id} |-> IF k = id THEN doc ELSE coll[k]]

\* ------------------------------------------------------------ middleware
\* identifiers a client can know: those of documents created so far,
\* whether or not the document still exists
KnownUsers == 1..(nextUser - 1)
KnownPosts == 1..(nextPost - 1)
KnownComments == 1..(nextComment - 1)
KnownRequests == 1..(nextRequest - 1)

\* isAuthenticated: any access token that verifies; the token carries the
\* id of a user that was registered when it was issued and is not checked
\* against the store, so it outlives the account.
Authenticated == KnownUsers

\* the response a handler sends (res.status(..).json(..)) or the error it
\* hands to next(): the handler, the status, the requester, the identifier
\* the request named, a second path parameter if any, the message, and
\* the documents of the body: User documents returned directly, and the
\* items, count and totalPages of a feed
NoData == [users |-> <<>>, items |-> <<>>, count |-> 0, totalPages |-> 0]

Response(op, code, by, id, msg) ==
    [op |-> op, code |-> code, by |-> by, id |-> id, arg |-> 0, msg |-> msg,
     data |-> NoData]

\* ------------------------------------------------------------- documents
\* the password is stored as the bcrypt hash the pre-save hook computes
NewUser(name) ==
    [name |-> name, password |-> "bcrypt-hash", friends |-> <<>>, posts |-> <<>>]

\* .select("-password"), populate(path, "-password"), $project password: 0
Select(user) == [name |-> user.name, friends |-> user.friends, posts |-> user.posts]

\* FriendRequest schema: sender, receiver, and a status that defaults to
\* "pending"
NewFriendRequest(fields) ==
    [sender |-> fields.sender, receiver |-> fields.receiver, status |-> "pending"]

\* timestamps: true stamps createdAt with the millisecond of creation
NewPost(author, content, createdAt) ==
    [author |-> author, content |-> content, likedBy |-> <<>>, comments |-> <<>>,
     createdAt |-> createdAt]

NewComment(author, post, content) ==
    [author |-> author, post |-> post, content |-> content, likedBy |-> <<>>]

Init ==
    /\ users = <<>>
    /\ posts = <<>>
    /\ comments = <<>>
    /\ requests = <<>>
    /\ nextUser = 1
    /\ nextPost = 1
    /\ nextComment = 1
    /\ nextRequest = 1
    /\ resp = Response("none", 0, 0, 0, "")
    /\ running = <<>>

\* ------------------------------------------------------- auth controller
register(name) ==
    /\ nextUser <= MaxAccounts
    /\ users' = Insert(users, nextUser, NewUser(name))
    /\ nextUser' = nextUser + 1
    /\ resp' = Response("register", 201, 0, nextUser, "")
    /\ UNCHANGED <<running, posts, comments, requests, nextPost, nextComment, nextRequest>>

\* ----------------------------------------------------- friend controller
\* User.findByIdAndUpdate(id, {$addToSet: {friends: x}}): no-op when the
\* user document does not exist.
AddFriendNever(us, id, x) == us
AddFriend(us, id, x) ==
    IF id \in DOMAIN us
    THEN [us EXCEPT ![id].friends = AddToSet(@, x)]
    ELSE us

\* User.findByIdAndUpdate(id, {$pull: {friends: x}})
PullFriendNever(us, id, x) == us
PullFriend(us, id, x) ==
    IF id \in DOMAIN us
    THEN [us EXCEPT ![id].friends = Pull(@, x)]
    ELSE us

\* the fields of FriendRequest.create({sender: user.id, receiver})
RequestFieldsSwapped(by, receiver) == [sender |-> receiver, receiver |-> by]
RequestFields(by, receiver) == [sender |-> by, receiver |-> receiver]

\* user.friends.includes(receiver)
AlreadyFriendsNever(user, receiver) == FALSE
AlreadyFriends(user, receiver) == Includes(user.friends, receiver)

sendFriendRequest(by, receiver) ==
    /\ by \in Authenticated
    /\ IF receiver = NoReceiver
       THEN /\ resp' = Response("sendFriendRequest", 404, by, receiver, "Reciever not found")
            /\ UNCHANGED <<requests, nextRequest>>
       ELSE IF receiver = by
       THEN /\ resp' = Response("sendFriendRequest", 400, by, receiver, "cannot send to yourself")
            /\ UNCHANGED <<requests, nextRequest>>
       ELSE IF by \notin DOMAIN users
       THEN \* user is null: user.friends throws, the catch forwards the error
            /\ resp' = Response("sendFriendRequest", 500, by, receiver, "TypeError")
            /\ UNCHANGED <<requests, nextRequest>>
       ELSE IF AlreadyFriends(users[by], receiver)
       THEN /\ resp' = Response("sendFriendRequest", 400, by, receiver, "already friends")
            /\ UNCHANGED <<requests, nextRequest>>
       ELSE /\ nextRequest <= MaxRequests
            /\ requests' = Insert(requests, nextRequest,
                                   NewFriendRequest(RequestFields(by, receiver)))
            /\ nextRequest' = nextRequest + 1
            /\ resp' = Response("sendFriendRequest", 201, by, receiver, "Friend request sent")
    /\ UNCHANGED <<running, users, posts, comments, nextUser, nextPost, nextComment>>

\* FriendRequest.findByIdAndUpdate(id, {status}, {new: true})
SetStatusAccepted(rs, id, status) == [rs EXCEPT ![id].status = "accepted"]
SetStatus(rs, id, status) == [rs EXCEPT ![id].status = status]

acceptFriendRequest(by, id) ==
    /\ by \in Authenticated
    /\ IF id \notin DOMAIN requests
       THEN /\ resp' = Response("acceptFriendRequest", 404, by, id, "Friend request not found")
            /\ UNCHANGED <<requests, users>>
       ELSE LET friendRequest == SetStatus(requests, id, "accepted")[id]
                afterSender == AddFriend(users, friendRequest.sender, friendRequest.receiver)
            IN /\ requests' = SetStatus(requests, id, "accepted")
               /\ users' = AddFriend(afterSender, friendRequest.receiver, friendRequest.sender)
               /\ resp' = Response("acceptFriendRequest", 200, by, id, "Accepted friend request")
    /\ UNCHANGED <<running, posts, comments, nextUser, nextPost, nextComment, nextRequest>>

rejectFriendRequest(by, id) ==
    /\ by \in Authenticated
    /\ IF id \notin DOMAIN requests
       THEN /\ resp' = Response("rejectFriendRequest", 404, by, id, "Friend request not found")
            /\ UNCHANGED requests
       ELSE /\ requests' = SetStatus(requests, id, "rejected")
            /\ resp' = Response("rejectFriendRequest", 200, by, id, "Rejected friend request")
    /\ UNCHANGED <<running, users, posts, comments, nextUser, nextPost, nextComment, nextRequest>>

\* ------------------------------------------------------- user controller
unfriend(by, id) ==
    /\ by \in Authenticated
    /\ IF by \notin DOMAIN users
       THEN /\ resp' = Response("unfriend", 404, by, id, "User not found")
            /\ UNCHANGED users
       ELSE /\ users' = PullFriend(PullFriend(users, by, id), id, by)
            /\ resp' = [Response("unfriend", 200, by, id, "Unfriended successfully")
                           EXCEPT !.data.users = <<users'[by]>>]
    /\ UNCHANGED <<running, posts, comments, requests, nextUser, nextPost, nextComment, nextRequest>>

\* user._id.toString() !== req.userId
IsSelfAlways(id, by) == TRUE
IsSelf(id, by) == id = by

\* req.body of PATCH /users/:id.  updateUserValidation checks `name` and
\* `bio` when present and strips nothing, so any schema path can be sent.
UserBodies ==
    {[has |-> {"name"}, name |-> n, friends |-> <<>>, posts |-> <<>>] : n \in Names}
    \cup {[has |-> {"friends"}, name |-> "ann", friends |-> f, posts |-> <<>>] :
             f \in {<<>>} \cup {<<v>> : v \in KnownUsers}}
    \cup {[has |-> {"posts"}, name |-> "ann", friends |-> <<>>, posts |-> <<>>]}

\* User.findByIdAndUpdate(id, req.body): $set of every path in the body
SetUser(user, body) ==
    [user EXCEPT !.name = IF "name" \in body.has THEN body.name ELSE @,
                 !.friends = IF "friends" \in body.has THEN body.friends ELSE @,
                 !.posts = IF "posts" \in body.has THEN body.posts ELSE @]

updateUser(by, id, body) ==
    /\ by \in Authenticated
    /\ IF id \notin DOMAIN users
       THEN /\ resp' = Response("updateUser", 404, by, id, "User not found")
            /\ UNCHANGED users
       ELSE IF ~IsSelf(id, by)
       THEN /\ resp' = Response("updateUser", 403, by, id, "not authorized")
            /\ UNCHANGED users
       ELSE /\ users' = [users EXCEPT ![id] = SetUser(@, body)]
            /\ resp' = [Response("updateUser", 200, by, id, "")
                           EXCEPT !.data.users = <<Select(users'[id])>>]
    /\ UNCHANGED <<running, posts, comments, requests, nextUser, nextPost, nextComment, nextRequest>>

\* Post.deleteMany({author: u})
DeletePostsBy(ps, u) == [k \in {p \in DOMAIN ps : ps[p].author # u} |-> ps[k]]

\* Post.updateMany({}, {$pull: {likedBy: u}})
PullLikes(ps, u) == [k \in DOMAIN ps |-> [ps[k] EXCEPT !.likedBy = Pull(@, u)]]

\* User.updateMany({}, {$pull: {friends: u}})
PullFriendEverywhere(us, u) == [k \in DOMAIN us |-> [us[k] EXCEPT !.friends = Pull(@, u)]]

\* FriendRequest.deleteMany({$or: [{sender: u}, {receiver: u}]})
DeleteRequestsOf(rs, u) ==
    [k \in {r \in DOMAIN rs : rs[r].sender # u /\ rs[r].receiver # u} |-> rs[k]]

\* Comment.deleteMany({author: u})
DeleteCommentsByNone(cs, u) == cs
DeleteCommentsBy(cs, u) == [k \in {c \in DOMAIN cs : cs[c].author # u} |-> cs[k]]

deleteUser(by, id) ==
    /\ by \in Authenticated
    /\ IF id \notin DOMAIN users
       THEN /\ resp' = Response("deleteUser", 404, by, id, "User not found")
            /\ UNCHANGED <<users, posts, comments, requests>>
       ELSE IF ~IsSelf(id, by)
       THEN /\ resp' = Response("deleteUser", 403, by, id, "not authorized")
            /\ UNCHANGED <<users, posts, comments, requests>>
       ELSE /\ users' = PullFriendEverywhere(Remove(users, id), id)
            /\ posts' = PullLikes(DeletePostsBy(posts, id), id)
            /\ requests' = DeleteRequestsOf(requests, id)
            /\ comments' = DeleteCommentsBy(comments, id)
            /\ resp' = Response("deleteUser", 200, by, id, "User deleted successfully")
    /\ UNCHANGED <<running, nextUser, nextPost, nextComment, nextRequest>>

\* ------------------------------------------------------- post controller
\* User.findByIdAndUpdate(u, {$addToSet: {posts: p}})
AddUserPostNever(us, u, p) == us
AddUserPost(us, u, p) ==
    IF u \in DOMAIN us THEN [us EXCEPT ![u].posts = AddToSet(@, p)] ELSE us

\* User.findByIdAndUpdate(u, {$pull: {posts: p}})
PullUserPost(us, u, p) ==
    IF u \in DOMAIN us THEN [us EXCEPT ![u].posts = Pull(@, p)] ELSE us

\* Post.findByIdAndUpdate(p, {$addToSet: {comments: c}})
AddPostComment(ps, p, c) ==
    IF p \in DOMAIN ps THEN [ps EXCEPT ![p].comments = AddToSet(@, c)] ELSE ps

\* Post.findByIdAndUpdate(p, {$pull: {comments: c}})
PullPostComment(ps, p, c) ==
    IF p \in DOMAIN ps THEN [ps EXCEPT ![p].comments = Pull(@, c)] ELSE ps

\* Comment.deleteMany({post: p})
DeleteCommentsOnNone(cs, p) == cs
DeleteCommentsOn(cs, p) == [k \in {c \in DOMAIN cs : cs[c].post # p} |-> cs[k]]

\* post.author.toString() !== req.userId, comment.author.toString() !== req.userId
IsAuthorAlways(doc, by) == TRUE
IsAuthor(doc, by) == doc.author = by

\* the milliseconds a post can be created in: that of the post created
\* just before it, or a later one
Ticks == {nextPost - 1, nextPost}

createPost(by, content, createdAt) ==
    /\ by \in Authenticated
    /\ nextPost <= MaxPosts
    /\ createdAt \in Ticks
    /\ posts' = Insert(posts, nextPost, NewPost(by, content, createdAt))
    /\ users' = AddUserPost(users, by, nextPost)
    /\ nextPost' = nextPost + 1
    /\ resp' = Response("createPost", 201, by, nextPost, "")
    /\ UNCHANGED <<running, comments, requests, nextUser, nextComment, nextRequest>>

\* req.body of PATCH /posts/:id.  updatePostValidation checks `title` and
\* `content` and strips nothing, so `author` can be sent as well.
PostBodies ==
    {[has |-> {"content"}, content |-> c, author |-> 0] : c \in Contents}
    \cup {[has |-> {"content", "author"}, content |-> "new", author |-> a] : a \in KnownUsers}

\* Post.findByIdAndUpdate(id, req.body): $set of every path in the body
SetPost(post, body) ==
    [post EXCEPT !.content = IF "content" \in body.has THEN body.content ELSE @,
                 !.author = IF "author" \in body.has THEN body.author ELSE @]

updatePost(by, id, body) ==
    /\ by \in Authenticated
    /\ IF id \notin DOMAIN posts
       THEN /\ resp' = Response("updatePost", 404, by, id, "Post not found")
            /\ UNCHANGED posts
       ELSE IF ~IsAuthor(posts[id], by)
       THEN /\ resp' = Response("updatePost", 401, by, id, "not authorized")
            /\ UNCHANGED posts
       ELSE /\ posts' = [posts EXCEPT ![id] = SetPost(@, body)]
            /\ resp' = Response("updatePost", 200, by, id, "")
    /\ UNCHANGED <<running, users, comments, requests, nextUser, nextPost, nextComment, nextRequest>>

deletePost(by, id) ==
    /\ by \in Authenticated
    /\ IF id \notin DOMAIN posts
       THEN /\ resp' = Response("deletePost", 404, by, id, "Post not found")
            /\ UNCHANGED <<posts, users, comments>>
       ELSE IF ~IsAuthor(posts[id], by)
       THEN /\ resp' = Response("deletePost", 401, by, id, "not authorized")
            /\ UNCHANGED <<posts, users, comments>>
       ELSE /\ posts' = Remove(posts, id)
            /\ users' = PullUserPost(users, by, id)
            /\ comments' = DeleteCommentsOn(comments, id)
            /\ resp' = Response("deletePost", 200, by, id, "")
    /\ UNCHANGED <<running, requests, nextUser, nextPost, nextComment, nextRequest>>

\* the like toggle of toggleLikePost and toggleLikeComment: includes, then
\* pull or push on the loaded document's likedBy
ToggleLikeAlwaysPush(likedBy, by) ==
    [likedBy |-> Push(likedBy, by), message |-> "Like added"]
ToggleLike(likedBy, by) ==
    IF Includes(likedBy, by)
    THEN [likedBy |-> Pull(likedBy, by), message |-> "Like removed"]
    ELSE [likedBy |-> Push(likedBy, by), message |-> "Like added"]

toggleLikePost(by, id) ==
    /\ by \in Authenticated
    /\ IF id \notin DOMAIN posts
       THEN /\ resp' = Response("toggleLikePost", 404, by, id, "Post not found")
            /\ UNCHANGED posts
       ELSE LET t == ToggleLike(posts[id].likedBy, by)
            IN /\ posts' = [posts EXCEPT ![id].likedBy = t.likedBy]
               /\ resp' = Response("toggleLikePost", 200, by, id, t.message)
    /\ UNCHANGED <<running, users, comments, requests, nextUser, nextPost, nextComment, nextRequest>>

createComment(by, id, content) ==
    /\ by \in Authenticated
    /\ nextComment <= MaxComments
    /\ comments' = Insert(comments, nextComment, NewComment(by, id, content))
    /\ posts' = AddPostComment(posts, id, nextComment)
    /\ nextComment' = nextComment + 1
    /\ resp' = Response("createComment", 201, by, nextComment, "")
    /\ UNCHANGED <<running, users, requests, nextUser, nextPost, nextRequest>>

deleteComment(by, id, commentId) ==
    /\ by \in Authenticated
    /\ IF commentId \notin DOMAIN comments \/ id \notin DOMAIN posts
       THEN /\ resp' = [Response("deleteComment", 404, by, commentId, "Comment not found")
                          EXCEPT !.arg = id]
            /\ UNCHANGED <<posts, comments>>
       ELSE IF ~IsAuthor(comments[commentId], by)
       THEN /\ resp' = [Response("deleteComment", 401, by, commentId, "not authorized")
                          EXCEPT !.arg = id]
            /\ UNCHANGED <<posts, comments>>
       ELSE /\ posts' = PullPostComment(posts, comments[commentId].post, commentId)
            /\ comments' = Remove(comments, commentId)
            /\ resp' = [Response("deleteComment", 200, by, commentId, "")
                          EXCEPT !.arg = id]
    /\ UNCHANGED <<running, users, requests, nextUser, nextPost, nextComment, nextRequest>>

updateComment(by, commentId, content) ==
    /\ by \in Authenticated
    /\ IF commentId \notin DOMAIN comments
       THEN /\ resp' = Response("updateComment", 404, by, commentId, "Comment not found")
            /\ UNCHANGED comments
       ELSE IF ~IsAuthor(comments[commentId], by)
       THEN /\ resp' = Response("updateComment", 401, by, commentId, "not authorized")
            /\ UNCHANGED comments
       ELSE /\ comments' = [comments EXCEPT ![commentId].content = content]
            /\ resp' = Response("updateComment", 200, by, commentId, "")
    /\ UNCHANGED <<running, users, posts, requests, nextUser, nextPost, nextComment, nextRequest>>

toggleLikeComment(by, commentId) ==
    /\ by \in Authenticated
    /\ IF commentId \notin DOMAIN comments
       THEN /\ resp' = Response("toggleLikeComment", 404, by, commentId, "Comment not found")
            /\ UNCHANGED comments
       ELSE LET t == ToggleLike(comments[commentId].likedBy, by)
            IN /\ comments' = [comments EXCEPT ![commentId].likedBy = t.likedBy]
               /\ resp' = Response("toggleLikeComment", 200, by, commentId, t.message)
    /\ UNCHANGED <<running, users, posts, requests, nextUser, nextPost, nextComment, nextRequest>>

\* ------------------------------------------------------- feed controller
\* user.friends as the operand of $in and $nin
FriendsOf(u) == Range(users[u].friends)

\* Post.find({author: {$in: user.friends}})
DirectMatchAll(u) == DOMAIN posts
DirectMatch(u) == {p \in DOMAIN posts : posts[p].author \in FriendsOf(u)}

\* Post.find({likedBy: {$in: user.friends}, author: {$nin: user.friends}})
LikedMatchAnyAuthor(u) ==
    {p \in DOMAIN posts : Range(posts[p].likedBy) \cap FriendsOf(u) # {}}
LikedMatch(u) ==
    {p \in DOMAIN posts :
        /\ Range(posts[p].likedBy) \cap FriendsOf(u) # {}
        /\ posts[p].author \notin FriendsOf(u)}

\* $lookup of post.comments in the comments collection, $unwind, and
\* $match {"comments.author": {$in: user.friends}}: the stored comments the
\* post lists that a friend wrote, in the order of the list
FriendComments(u, p) ==
    SelectSeq(posts[p].comments,
              LAMBDA c : c \in DOMAIN comments /\ comments[c].author \in FriendsOf(u))

\* $match {author: {$nin: user.friends}} ... $group {_id: "$_id"}
CommentMatch(u) ==
    {p \in DOMAIN posts :
        /\ posts[p].author \notin FriendsOf(u)
        /\ FriendComments(u, p) # <<>>}

\* sort({createdAt: -1}): the store may return posts of equal createdAt in
\* either order, and need not choose the same order for two queries
Orders(S) ==
    {s \in [1..Cardinality(S) -> S] :
        /\ \A i, j \in 1..Cardinality(S) : i # j => s[i] # s[j]
        /\ \A i \in 1..(Cardinality(S) - 1) :
              posts[s[i]].createdAt >= posts[s[i + 1]].createdAt}

\* skip((page - 1) * limit).limit(limit)
Slice(s, page, limit) ==
    LET skip == (page - 1) * limit
        last == IF skip + limit < Len(s) THEN skip + limit ELSE Len(s)
    IN SubSeq(s, skip + 1, last)

\* Math.ceil(count / limit)
Ceil(count, limit) == (count + limit - 1) \div limit

\* populate("author", "-password"): the author's document without the
\* password, or nothing (null) when no such user is stored
Populate(p) ==
    [id |-> p, createdAt |-> posts[p].createdAt, comments |-> posts[p].comments,
     author |-> IF posts[p].author \in DOMAIN users
                THEN <<Select(users[posts[p].author])>>
                ELSE <<>>]

\* the items of find(..).populate(..)
Populated(s) == [i \in 1..Len(s) |-> Populate(s[i])]

\* the last stages of the aggregation: $lookup of the author in users,
\* $unwind "$author" (an item whose lookup found nothing is dropped),
\* $project {"author.password": 0}; comments are those $group pushed
WithAuthor(u, s) ==
    LET kept == SelectSeq(s, LAMBDA p : posts[p].author \in DOMAIN users)
    IN [i \in 1..Len(kept) |->
           [Populate(kept[i]) EXCEPT !.comments = FriendComments(u, kept[i])]]

\* res.status(200).json({data, count, page, totalPages})
FeedPage(op, by, page, limit, items, count) ==
    [Response(op, 200, by, page, "") EXCEPT
        !.arg = limit,
        !.data = [users |-> <<>>, items |-> items, count |-> count,
                  totalPages |-> Ceil(count, limit)]]

\* `new AppError(..)` in a module that never requires AppError: evaluating
\* it throws a ReferenceError, the catch hands that to next() and
\* ErrorHandler answers with its default status
NoRequester(op, by, page, limit) ==
    [Response(op, 500, by, page, "AppError is not defined") EXCEPT !.arg = limit]

getFeed(by, page, limit) ==
    /\ by \in Authenticated
    /\ IF by \notin DOMAIN users
       THEN resp' = NoRequester("getFeed", by, page, limit)
       ELSE \E s \in Orders(DirectMatch(by)) :
               resp' = FeedPage("getFeed", by, page, limit,
                                Populated(Slice(s, page, limit)),
                                Cardinality(DirectMatch(by)))
    /\ UNCHANGED <<running, users, posts, comments, requests, nextUser, nextPost, nextComment, nextRequest>>

getFriendCommentFeed(by, page, limit) ==
    /\ by \in Authenticated
    /\ IF by \notin DOMAIN users
       THEN resp' = NoRequester("getFriendCommentFeed", by, page, limit)
       ELSE \E s \in Orders(CommentMatch(by)) :
               resp' = FeedPage("getFriendCommentFeed", by, page, limit,
                                WithAuthor(by, Slice(s, page, limit)),
                                Cardinality(CommentMatch(by)))
    /\ UNCHANGED <<running, users, posts, comments, requests, nextUser, nextPost, nextComment, nextRequest>>

getFriendLikedPosts(by, page, limit) ==
    /\ by \in Authenticated
    /\ IF by \notin DOMAIN users
       THEN resp' = NoRequester("getFriendLikedPosts", by, page, limit)
       ELSE \E s \in Orders(LikedMatch(by)) :
               resp' = FeedPage("getFriendLikedPosts", by, page, limit,
                                Populated(Slice(s, page, limit)),
                                Cardinality(LikedMatch(by)))
    /\ UNCHANGED <<running, users, posts, comments, requests, nextUser, nextPost, nextComment, nextRequest>>

\* ---------------------------------------------------- failing store calls
\* A store call that rejects (connection lost, timeout): the await throws,
\* the handler's catch hands the error to next() and ErrorHandler answers
\* 500.  `k` is the position of the failing call among the handler's store
\* calls; the calls before it have been committed, those after it never run.
StoreError(op, by, id, k) ==
    [Response(op, 500, by, id, "store error") EXCEPT !.arg = k]

\* unfriend: 1 findByIdAndUpdate(req.userId), 2 findByIdAndUpdate(id)
unfriendFails(by, id, k) ==
    /\ by \in Authenticated
    /\ k \in 1..2
    /\ k = 2 => by \in DOMAIN users
    /\ users' = IF k = 2 THEN PullFriend(users, by, id) ELSE users
    /\ resp' = StoreError("unfriend", by, id, k)
    /\ UNCHANGED <<running, posts, comments, requests, nextUser, nextPost, nextComment, nextRequest>>

\* acceptFriendRequest: 1 FriendRequest.findByIdAndUpdate, 2 and 3 the two
\* User.findByIdAndUpdate
acceptFriendRequestFails(by, id, k) ==
    /\ by \in Authenticated
    /\ k \in 1..3
    /\ k >= 2 => id \in DOMAIN requests
    /\ requests' = IF k >= 2 THEN SetStatus(requests, id, "accepted") ELSE requests
    /\ users' = IF k = 3
                THEN AddFriend(users, requests[id].sender, requests[id].receiver)
                ELSE users
    /\ resp' = StoreError("acceptFriendRequest", by, id, k)
    /\ UNCHANGED <<running, posts, comments, nextUser, nextPost, nextComment, nextRequest>>

\* the store after the first n writes of deleteUser's cascade, in the order
\* of the code: the user, the posts, the likes, the friends, the requests,
\* the comments
DeleteUserWritesRolledBack(st, id, n) == st
DeleteUserWrites(st, id, n) ==
    LET s1 == IF n >= 1 THEN [st EXCEPT !.users = Remove(@, id)] ELSE st
        s2 == IF n >= 2 THEN [s1 EXCEPT !.posts = DeletePostsBy(@, id)] ELSE s1
        s3 == IF n >= 3 THEN [s2 EXCEPT !.posts = PullLikes(@, id)] ELSE s2
        s4 == IF n >= 4 THEN [s3 EXCEPT !.users = PullFriendEverywhere(@, id)] ELSE s3
        s5 == IF n >= 5 THEN [s4 EXCEPT !.requests = DeleteRequestsOf(@, id)] ELSE s4
    IN IF n >= 6 THEN [s5 EXCEPT !.comments = DeleteCommentsBy(@, id)] ELSE s5

\* deleteUser: 1 User.findById, 2 User.findByIdAndDelete, 3 Post.deleteMany,
\* 4 Post.updateMany, 5 User.updateMany, 6 FriendRequest.deleteMany,
\* 7 Comment.deleteMany
deleteUserFails(by, id, k) ==
    /\ by \in Authenticated
    /\ k \in 1..7
    /\ k >= 2 => (id \in DOMAIN users /\ IsSelf(id, by))
    /\ LET st == DeleteUserWrites([users |-> users, posts |-> posts,
                                   comments |-> comments, requests |-> requests],
                                  id, IF k >= 2 THEN k - 2 ELSE 0)
       IN /\ users' = st.users
          /\ posts' = st.posts
          /\ comments' = st.comments
          /\ requests' = st.requests
    /\ resp' = StoreError("deleteUser", by, id, k)
    /\ UNCHANGED <<running, nextUser, nextPost, nextComment, nextRequest>>

\* ------------------------------------------------------ handlers by await
\* A handler is suspended at every await of a store call, and other
\* requests run meanwhile.  A suspended request keeps what it has read in
\* its local variables: hasLiked, and the friend request document.
Suspended(op, by, id, pc, hasLiked, friendRequest) ==
    [op |-> op, by |-> by, id |-> id, pc |-> pc, hasLiked |-> hasLiked,
     sender |-> friendRequest.sender, receiver |-> friendRequest.receiver]

\* the local `friendRequest` of a handler that loads none
NoRequest == [sender |-> NoReceiver, receiver |-> NoReceiver]

\* toggleLikePost up to `await post.save()`: Post.findById, then
\* includes and pull or push on the loaded document
toggleLikePostFind(c, by, id) ==
    /\ by \in Authenticated
    /\ c \notin DOMAIN running
    /\ IF id \notin DOMAIN posts
       THEN /\ resp' = Response("toggleLikePost", 404, by, id, "Post not found")
            /\ UNCHANGED running
       ELSE /\ running' = Insert(running, c,
                              Suspended("toggleLikePost", by, id, 1,
                                        Includes(posts[id].likedBy, by), NoRequest))
            /\ UNCHANGED resp
    /\ UNCHANGED <<users, posts, comments, requests, nextUser, nextPost, nextComment, nextRequest>>

\* post.save() after pull or push on likedBy: the change is sent as $pullAll
\* or $push of the one identifier and applied to the stored array as it is
\* then, not to the array that was loaded
toggleLikePostSave(c) ==
    /\ c \in DOMAIN running
    /\ running[c].op = "toggleLikePost"
    /\ LET call == running[c]
       IN /\ posts' = [posts EXCEPT ![call.id].likedBy =
                           IF call.hasLiked THEN Pull(@, call.by) ELSE Push(@, call.by)]
          /\ resp' = Response("toggleLikePost", 200, call.by, call.id,
                              IF call.hasLiked THEN "Like removed" ELSE "Like added")
    /\ running' = Remove(running, c)
    /\ UNCHANGED <<users, comments, requests, nextUser, nextPost, nextComment, nextRequest>>

\* acceptFriendRequest up to the await of the first User.findByIdAndUpdate:
\* the status is written and the request document kept
acceptFriendRequestUpdate(c, by, id) ==
    /\ by \in Authenticated
    /\ c \notin DOMAIN running
    /\ IF id \notin DOMAIN requests
       THEN /\ resp' = Response("acceptFriendRequest", 404, by, id, "Friend request not found")
            /\ UNCHANGED <<requests, running>>
       ELSE /\ requests' = SetStatus(requests, id, "accepted")
            /\ running' = Insert(running, c,
                              Suspended("acceptFriendRequest", by, id, 1, FALSE, requests[id]))
            /\ UNCHANGED resp
    /\ UNCHANGED <<users, posts, comments, nextUser, nextPost, nextComment, nextRequest>>

\* the two User.findByIdAndUpdate of acceptFriendRequest, one per step, and
\* the response after the second
acceptFriendRequestNext(c) ==
    /\ c \in DOMAIN running
    /\ running[c].op = "acceptFriendRequest"
    /\ LET call == running[c]
       IN IF call.pc = 1
          THEN /\ users' = AddFriend(users, call.sender, call.receiver)
               /\ running' = [running EXCEPT ![c].pc = 2]
               /\ UNCHANGED resp
          ELSE /\ users' = AddFriend(users, call.receiver, call.sender)
               /\ running' = Remove(running, c)
               /\ resp' = Response("acceptFriendRequest", 200, call.by, call.id,
                                   "Accepted friend request")
    /\ UNCHANGED <<posts, comments, requests, nextUser, nextPost, nextComment, nextRequest>>

\* deleteUser up to the await of User.findByIdAndDelete: User.findById and
\* the two checks
deleteUserFind(c, by, id) ==
    /\ by \in Authenticated
    /\ c \notin DOMAIN running
    /\ IF id \notin DOMAIN users
       THEN /\ resp' = Response("deleteUser", 404, by, id, "User not found")
            /\ UNCHANGED running
       ELSE IF ~IsSelf(id, by)
       THEN /\ resp' = Response("deleteUser", 403, by, id, "not authorized")
            /\ UNCHANGED running
       ELSE /\ running' = Insert(running, c,
                              Suspended("deleteUser", by, id, 0, FALSE, NoRequest))
            /\ UNCHANGED resp
    /\ UNCHANGED <<users, posts, comments, requests, nextUser, nextPost, nextComment, nextRequest>>

\* the n-th write of deleteUser's cascade alone
DeleteUserWrite(st, id, n) ==
    IF n = 1 THEN [st EXCEPT !.users = Remove(@, id)]
    ELSE IF n = 2 THEN [st EXCEPT !.posts = DeletePostsBy(@, id)]
    ELSE IF n = 3 THEN [st EXCEPT !.posts = PullLikes(@, id)]
    ELSE IF n = 4 THEN [st EXCEPT !.users = PullFriendEverywhere(@, id)]
    ELSE IF n = 5 THEN [st EXCEPT !.requests = DeleteRequestsOf(@, id)]
    ELSE [st EXCEPT !.comments = DeleteCommentsBy(@, id)]

\* the six writes of deleteUser, one per step, and the response after the
\* last
deleteUserNext(c) ==
    /\ c \in DOMAIN running
    /\ running[c].op = "deleteUser"
    /\ LET call == running[c]
           st == DeleteUserWrite([users |-> users, posts |-> posts,
                                  comments |-> comments, requests |-> requests],
                                 call.id, call.pc + 1)
       IN /\ users' = st.users
          /\ posts' = st.posts
          /\ comments' = st.comments
          /\ requests' = st.requests
          /\ IF call.pc + 1 < 6
             THEN /\ running' = [running EXCEPT ![c].pc = call.pc + 1]
                  /\ UNCHANGED resp
             ELSE /\ running' = Remove(running, c)
                  /\ resp' = Response("deleteUser", 200, call.by, call.id,
                                      "User deleted successfully")
    /\ UNCHANGED <<nextUser, nextPost, nextComment, nextRequest>>

\* the elements of a set of identifiers in ascending order
SeqOf(S) ==
    [i \in 1..Cardinality(S) |->
        CHOOSE x \in S : Cardinality({y \in S : y < x}) = i - 1]

\* getUsers: every stored user but the requester, without the password
getUsers(by) ==
    /\ by \in Authenticated
    /\ LET found == SeqOf(DOMAIN users \ {by})
       IN resp' = [Response("getUsers", 200, by, 0, "") EXCEPT
                      !.data.users = [i \in 1..Len(found) |-> Select(users[found[i]])]]
    /\ UNCHANGED <<running, users, posts, comments, requests, nextUser, nextPost, nextComment, nextRequest>>

\* --------------------------------------------------------- specifications
\* the friendship subsystem: accounts, friend requests, friends sets
NextFriend ==
    \/ \E n \in Names : nextUser <= MaxUsers /\ register(n)
    \/ \E by \in UserIds, r \in KnownUsers \cup {NoReceiver} : sendFriendRequest(by, r)
    \/ \E by \in UserIds, id \in RequestIds : acceptFriendRequest(by, id)
    \/ \E by \in UserIds, id \in RequestIds : rejectFriendRequest(by, id)
    \/ \E by \in UserIds, id \in KnownUsers : unfriend(by, id)
    \/ \E by \in UserIds, id \in UserIds, body \in UserBodies : updateUser(by, id, body)
    \/ \E by \in UserIds, id \in UserIds : deleteUser(by, id)

SpecFriend == Init /\ [][NextFriend]_vars

\* posts and their likes, with account deletion
NextPost ==
    \/ nextUser <= MaxUsers /\ register("ann")
    \/ \E by \in UserIds, c \in Contents : createPost(by, c, nextPost)
    \/ \E by \in UserIds, id \in PostIds, body \in PostBodies : updatePost(by, id, body)
    \/ \E by \in UserIds, id \in PostIds : deletePost(by, id)
    \/ \E by \in UserIds, id \in PostIds : toggleLikePost(by, id)
    \/ \E by \in UserIds, id \in UserIds : deleteUser(by, id)

SpecPost == Init /\ [][NextPost]_vars

\* posts and comments: creation, update and deletion
NextComment ==
    \/ nextUser <= MaxUsers /\ register("ann")
    \/ \E by \in UserIds : createPost(by, "old", nextPost)
    \/ \E by \in UserIds, id \in PostIds, body \in PostBodies : updatePost(by, id, body)
    \/ \E by \in UserIds, id \in PostIds : deletePost(by, id)
    \/ \E by \in UserIds, id \in KnownPosts : createComment(by, id, "old")
    \/ \E by \in UserIds, id \in PostIds, c \in CommentIds : deleteComment(by, id, c)
    \/ \E by \in UserIds, id \in CommentIds, c \in Contents : updateComment(by, id, c)
    \/ \E by \in UserIds, id \in UserIds : deleteUser(by, id)

SpecComment == Init /\ [][NextComment]_vars

\* the like toggles on posts and comments
NextLike ==
    \/ nextUser <= MaxUsers /\ register("ann")
    \/ \E by \in UserIds : createPost(by, "old", nextPost)
    \/ \E by \in UserIds, id \in KnownPosts : createComment(by, id, "old")
    \/ \E by \in UserIds, id \in PostIds : toggleLikePost(by, id)
    \/ \E by \in UserIds, id \in CommentIds : toggleLikeComment(by, id)
    \/ \E by \in UserIds, id \in UserIds : deleteUser(by, id)

SpecLike == Init /\ [][NextLike]_vars

\* account deletion over a populated store
NextCascade ==
    \/ nextUser <= MaxUsers /\ register("ann")
    \/ \E by \in UserIds, r \in KnownUsers : sendFriendRequest(by, r)
    \/ \E by \in UserIds, id \in RequestIds : acceptFriendRequest(by, id)
    \/ \E by \in UserIds : createPost(by, "old", nextPost)
    \/ \E by \in UserIds, id \in PostIds : toggleLikePost(by, id)
    \/ \E by \in UserIds, id \in KnownPosts : createComment(by, id, "old")
    \/ \E by \in UserIds, id \in UserIds : deleteUser(by, id)

SpecCascade == Init /\ [][NextCascade]_vars

\* ------------------------------------------------------------- properties
\* C1: friendship is symmetric in every state: for all existing users A and
\* B, A is in B.friends if and only if B is in A.friends.
FriendshipSymmetric ==
    \A a \in DOMAIN users, b \in DOMAIN users :
        Includes(users[b].friends, a) <=> Includes(users[a].friends, b)

\* C2: a request that is accepted or rejected keeps that status through
\* every later step, as long as it exists.
TerminalStatusStays ==
    [][\A r \in DOMAIN requests :
          (requests[r].status # "pending" /\ r \in DOMAIN requests')
              => requests'[r].status = requests[r].status]_vars

\* C8: sendFriendRequest answers 404 when the receiver is missing, 400
\* "yourself" when sender = receiver, 400 "already friends" when the
\* sender's friends already hold the receiver; and in each of the three
\* cases no request is created and no user document changes.
SendFriendRequestRejections ==
    [][resp'.op = "sendFriendRequest" =>
          LET by == resp'.by
              receiver == resp'.id
          IN /\ receiver = NoReceiver =>
                    /\ resp'.code = 404
                    /\ UNCHANGED <<requests, users>>
             /\ (receiver # NoReceiver /\ receiver = by) =>
                    /\ resp'.code = 400
                    /\ resp'.msg = "cannot send to yourself"
                    /\ UNCHANGED <<requests, users>>
             /\ (/\ receiver # NoReceiver
                 /\ receiver # by
                 /\ by \in DOMAIN users
                 /\ Includes(users[by].friends, receiver)) =>
                    /\ resp'.code = 400
                    /\ resp'.msg = "already friends"
                    /\ UNCHANGED <<requests, users>>]_vars

SendRejectedAsFriends ==
    /\ resp.op = "sendFriendRequest"
    /\ resp.code = 400
    /\ resp.msg = "already friends"
    /\ resp.by \in DOMAIN users
    /\ Includes(users[resp.by].friends, resp.id)

AcceptMakesMutualFriends ==
    (resp.op = "acceptFriendRequest" /\ resp.code = 200) =>
        LET r == requests[resp.id]
        IN /\ r.status = "accepted"
           /\ r.sender \in DOMAIN users
           /\ r.receiver \in DOMAIN users
           /\ Count(users[r.sender].friends, r.receiver) = 1
           /\ Count(users[r.receiver].friends, r.sender) = 1

\* C3: right after a successful deleteUser(U) no post has author U, no
\* user's friends hold U, no post's likedBy holds U, no comment has
\* author U and no friend request names U as sender or receiver.
CascadeIntegrity ==
    (resp.op = "deleteUser" /\ resp.code = 200) =>
        LET u == resp.id
        IN /\ u \notin DOMAIN users
           /\ \A p \in DOMAIN posts : posts[p].author # u
           /\ \A v \in DOMAIN users : ~Includes(users[v].friends, u)
           /\ \A p \in DOMAIN posts : ~Includes(posts[p].likedBy, u)
           /\ \A c \in DOMAIN comments : comments[c].author # u
           /\ \A r \in DOMAIN requests :
                  requests[r].sender # u /\ requests[r].receiver # u

\* a deletion that had a post, a comment and a friend request to remove and
\* left another account and its post behind
CascadeRemovedDocuments ==
    /\ resp.op = "deleteUser"
    /\ resp.code = 200
    /\ DOMAIN users # {}
    /\ DOMAIN posts # {} /\ DOMAIN posts # KnownPosts
    /\ KnownComments # {} /\ DOMAIN comments = {}
    /\ KnownRequests # {} /\ DOMAIN requests = {}

\* C4: every stored post's author is a stored user.
PostAuthorExists ==
    \A p \in DOMAIN posts : posts[p].author \in DOMAIN users

\* C5: every stored comment's post exists and lists the comment in its
\* comments array.
CommentListedInPost ==
    \A c \in DOMAIN comments :
        /\ comments[c].post \in DOMAIN posts
        /\ Includes(posts[comments[c].post].comments, c)

\* C6: a successful like toggle removes the actor when present and adds it
\* when absent, reports which of the two it did, and a second toggle by the
\* same actor on the same target gives back the likedBy set held before
\* the first.
LikeToggleInvolution ==
    [][(resp'.op \in {"toggleLikePost", "toggleLikeComment"} /\ resp'.code = 200) =>
          LET by == resp'.by
              id == resp'.id
              onPost == resp'.op = "toggleLikePost"
              before == IF onPost THEN posts[id].likedBy ELSE comments[id].likedBy
              after == IF onPost THEN posts'[id].likedBy ELSE comments'[id].likedBy
              again == ToggleLike(after, by).likedBy
          IN /\ Includes(before, by) =>
                    /\ resp'.msg = "Like removed"
                    /\ Range(after) = Range(before) \ {by}
             /\ ~Includes(before, by) =>
                    /\ resp'.msg = "Like added"
                    /\ Range(after) = Range(before) \cup {by}
             /\ Range(again) = Range(before)
             /\ (resp.op = resp'.op /\ resp.code = 200 /\ resp.by = by /\ resp.id = id) =>
                    Range(after) = IF resp.msg = "Like added"
                                   THEN Range(before) \ {by}
                                   ELSE Range(before) \cup {by}]_vars

\* a like taken back from a comment another user still likes
LikeTakenBack ==
    /\ resp.op = "toggleLikeComment"
    /\ resp.code = 200
    /\ resp.msg = "Like removed"
    /\ comments[resp.id].likedBy # <<>>

\* the requester of the step is not the author of the post or comment the
\* step names, which exists
NonAuthorStep ==
    \/ /\ resp'.op \in {"updatePost", "deletePost"}
       /\ resp'.id \in DOMAIN posts
       /\ posts[resp'.id].author # resp'.by
    \/ /\ resp'.op \in {"updateComment", "deleteComment"}
       /\ resp'.id \in DOMAIN comments
       /\ comments[resp'.id].author # resp'.by

\* C7 as stated: updatePost, deletePost, updateComment and deleteComment by
\* a non-author answer 401 and change no post, comment or user document.
NonAuthorAlwaysUnauthorized ==
    [][NonAuthorStep =>
          /\ resp'.code = 401
          /\ UNCHANGED <<posts, comments, users>>]_vars

\* C7 as amended: the same, except that deleteComment answers 404 when the
\* post id of its URL names no stored post; nothing changes in either case.
NonAuthorRejected ==
    [][NonAuthorStep =>
          /\ resp'.code = IF resp'.op = "deleteComment" /\ resp'.arg \notin DOMAIN posts
                          THEN 404
                          ELSE 401
          /\ UNCHANGED <<posts, comments, users>>]_vars

\* a non-author's deleteComment refused, the comment still listed in its post
NonAuthorDeleteRefused ==
    /\ resp.op = "deleteComment"
    /\ resp.code = 401
    /\ resp.id \in DOMAIN comments
    /\ comments[resp.id].author # resp.by
    /\ comments[resp.id].post \in DOMAIN posts
    /\ Includes(posts[comments[resp.id].post].comments, resp.id)

\* C11: rejectFriendRequest on a stored request sets its status to rejected
\* and changes nothing else, no user document in particular; on an id that
\* names no request it answers 404 and changes nothing.
RejectOnlySetsStatus ==
    [][resp'.op = "rejectFriendRequest" =>
          /\ UNCHANGED <<users, posts, comments>>
          /\ DOMAIN requests' = DOMAIN requests
          /\ IF resp'.id \in DOMAIN requests
             THEN /\ resp'.code = 200
                  /\ requests' = [requests EXCEPT ![resp'.id].status = "rejected"]
             ELSE /\ resp'.code = 404
                  /\ requests' = requests]_vars

\* a rejection answered while two users are friends of each other
RejectedBesideFriends ==
    /\ resp.op = "rejectFriendRequest"
    /\ resp.code = 200
    /\ requests[resp.id].status = "rejected"
    /\ \E a \in DOMAIN users : users[a].friends # <<>>

\* the friendship subsystem with store calls of unfriend that may fail
NextUnfriend ==
    \/ NextFriend
    \/ \E by \in UserIds, id \in KnownUsers, k \in 1..2 : unfriendFails(by, id, k)

SpecUnfriend == Init /\ [][NextUnfriend]_vars

\* account deletion and acceptance with store calls that may fail; the
\* first user sends the friend requests, callers delete their own account,
\* and likes go to posts below the last identifier
NextFail ==
    \/ nextUser <= MaxUsers /\ register("ann")
    \/ \E r \in KnownUsers : sendFriendRequest(1, r)
    \/ \E by \in UserIds, id \in KnownRequests : acceptFriendRequest(by, id)
    \/ \E by \in UserIds : createPost(by, "old", nextPost)
    \/ \E by \in UserIds, id \in KnownPosts : id < MaxPosts /\ toggleLikePost(by, id)
    \/ \E by \in UserIds, id \in KnownPosts : createComment(by, id, "old")
    \/ \E by \in UserIds : deleteUser(by, by)
    \/ \E by \in UserIds, k \in 1..7 : deleteUserFails(by, by, k)
    \/ \E by \in UserIds, id \in KnownRequests, k \in 1..3 : acceptFriendRequestFails(by, id, k)

SpecFail == Init /\ [][NextFail]_vars

\* the two users of an unfriend step are friends of each other before it
MutualBeforeUnfriend ==
    /\ resp'.op = "unfriend"
    /\ resp'.by \in DOMAIN users
    /\ resp'.id \in DOMAIN users
    /\ Includes(users[resp'.by].friends, resp'.id)
    /\ Includes(users[resp'.id].friends, resp'.by)

\* C12 as stated: an unfriend call between two mutual friends ends with
\* both removals applied or with neither, whether it succeeds or fails.
UnfriendNeverHalfApplied ==
    [][MutualBeforeUnfriend =>
          (Includes(users'[resp'.by].friends, resp'.id)
              <=> Includes(users'[resp'.id].friends, resp'.by))]_vars

\* C12 as amended: an unfriend call that answers 200 has applied both
\* removals; one that ends with exactly one of them applied has answered
\* an error.
UnfriendSuccessIsSymmetric ==
    [][resp'.op = "unfriend" =>
          /\ resp'.code = 200 =>
                /\ ~Includes(users'[resp'.by].friends, resp'.id)
                /\ resp'.id \in DOMAIN users' =>
                       ~Includes(users'[resp'.id].friends, resp'.by)
          /\ (/\ MutualBeforeUnfriend
              /\ ~(Includes(users'[resp'.by].friends, resp'.id)
                      <=> Includes(users'[resp'.id].friends, resp'.by))) =>
                resp'.code = 500]_vars

\* two users made friends by an accepted request, then unfriended
UnfriendedAfterAccept ==
    /\ resp.op = "unfriend"
    /\ resp.code = 200
    /\ resp.id # resp.by
    /\ resp.id \in DOMAIN users
    /\ \E r \in DOMAIN requests :
          /\ requests[r].status = "accepted"
          /\ {requests[r].sender, requests[r].receiver} = {resp.by, resp.id}

\* C20: a handler whose k-th store call fails answers an error, has made
\* exactly the writes that come before that call and none of those after
\* it.  Stated on what is stored, for deleteUser and acceptFriendRequest.
FailureKeepsPrefix ==
    [][(resp'.code = 500 /\ resp'.msg = "store error") =>
          LET k == resp'.arg
              u == resp'.id
          IN /\ resp'.op = "deleteUser" =>
                   /\ IF k >= 3 THEN DOMAIN users' = DOMAIN users \ {u}
                                ELSE users' = users
                   /\ IF k >= 4 THEN DOMAIN posts' = {p \in DOMAIN posts : posts[p].author # u}
                                ELSE posts' = posts
                   /\ \A p \in DOMAIN posts' :
                          /\ posts'[p].author = posts[p].author
                          /\ posts'[p].comments = posts[p].comments
                          /\ posts'[p].likedBy = IF k >= 5 THEN Pull(posts[p].likedBy, u)
                                                  ELSE posts[p].likedBy
                   /\ \A v \in DOMAIN users' :
                          /\ users'[v].posts = users[v].posts
                          /\ users'[v].friends = IF k >= 6 THEN Pull(users[v].friends, u)
                                                  ELSE users[v].friends
                   /\ IF k >= 7
                      THEN /\ DOMAIN requests' =
                                {r \in DOMAIN requests :
                                    requests[r].sender # u /\ requests[r].receiver # u}
                           /\ \A r \in DOMAIN requests' : requests'[r] = requests[r]
                      ELSE requests' = requests
                   /\ comments' = comments
             /\ resp'.op = "acceptFriendRequest" =>
                   /\ UNCHANGED <<posts, comments>>
                   /\ IF k >= 2
                      THEN requests' = [requests EXCEPT ![u].status = "accepted"]
                      ELSE requests' = requests
                   /\ DOMAIN users' = DOMAIN users
                   /\ \A v \in DOMAIN users :
                          users'[v] =
                              IF k = 3 /\ v = requests[u].sender
                              THEN [users[v] EXCEPT
                                        !.friends = AddToSet(@, requests[u].receiver)]
                              ELSE users[v]]_vars

\* a deletion that failed at User.updateMany: the account, its posts and
\* its likes are gone, a surviving friend still lists it
DeleteFailedMidway ==
    /\ resp.op = "deleteUser"
    /\ resp.code = 500
    /\ resp.arg = 5
    /\ resp.id \notin DOMAIN users
    /\ DOMAIN posts # KnownPosts
    /\ \E v \in DOMAIN users : Includes(users[v].friends, resp.id)

\* the direct feed: two users, posts that may share their millisecond
NextFeed ==
    \/ nextUser <= MaxUsers /\ register("ann")
    \/ \E by \in UserIds, r \in KnownUsers : sendFriendRequest(by, r)
    \/ \E by \in UserIds, id \in KnownRequests : acceptFriendRequest(by, id)
    \/ \E by \in UserIds, at \in Ticks : createPost(by, "old", at)
    \/ \E by \in UserIds : deleteUser(by, by)
    \/ \E by \in UserIds, page \in 1..MaxPage, limit \in 1..MaxLimit :
          getFeed(by, page, limit)

SpecFeed == Init /\ [][NextFeed]_vars

\* the friend-liked feed: a requester, a friend who likes, a third author.
\* The first account is the requester: it sends the friend requests and
\* reads the feed, the others like.
NextLikedFeed ==
    \/ register("ann")
    \/ \E r \in KnownUsers : sendFriendRequest(1, r)
    \/ \E by \in AccountIds, id \in KnownRequests : acceptFriendRequest(by, id)
    \/ \E by \in AccountIds : createPost(by, "old", nextPost)
    \/ \E by \in AccountIds \ {1}, id \in KnownPosts : toggleLikePost(by, id)
    \/ \E page \in 1..MaxPage, limit \in 1..MaxLimit :
          getFriendLikedPosts(1, page, limit)

SpecLikedFeed == Init /\ [][NextLikedFeed]_vars

\* the friend-comment feed: a requester, a friend who comments, a third
\* author whose account may be deleted.  The first account is the
\* requester: it sends the friend requests and reads the feed.
NextCommentFeed ==
    \/ register("ann")
    \/ \E r \in KnownUsers : sendFriendRequest(1, r)
    \/ \E by \in AccountIds, id \in KnownRequests : acceptFriendRequest(by, id)
    \/ \E by \in AccountIds : createPost(by, "old", nextPost)
    \/ \E by \in AccountIds, id \in KnownPosts : createComment(by, id, "old")
    \/ \E by \in AccountIds : deleteUser(by, by)
    \/ \E page \in 1..MaxPage, limit \in 1..MaxLimit :
          getFriendCommentFeed(1, page, limit)

SpecCommentFeed == Init /\ [][NextCommentFeed]_vars

\* what every page of a feed must be, given the set of posts that match:
\* the count and totalPages of the set, and the slice of the set in some
\* order of non-increasing createdAt (empty beyond the last page)
PageOf(match) ==
    /\ resp.data.count = Cardinality(match)
    /\ resp.data.totalPages = Ceil(Cardinality(match), resp.arg)
    /\ \E s \in Orders(match) :
          [i \in 1..Len(resp.data.items) |-> resp.data.items[i].id]
              = Slice(s, resp.id, resp.arg)
    /\ resp.id > resp.data.totalPages => resp.data.items = <<>>

\* C13: a feed called by an existing user with page >= 1 and limit >= 1
\* answers 200 with totalPages = ceil(count/limit) and with the slice of
\* the ordered matching posts that starts at (page-1)*limit; beyond the last
\* page the items are empty and count and totalPages are still right.
PaginationMath ==
    /\ (resp.op = "getFeed" /\ resp.by \in DOMAIN users) =>
          (resp.code = 200 /\ PageOf(DirectMatch(resp.by)))
    /\ (resp.op = "getFriendCommentFeed" /\ resp.by \in DOMAIN users) =>
          (resp.code = 200 /\ PageOf(CommentMatch(resp.by)))
    /\ (resp.op = "getFriendLikedPosts" /\ resp.by \in DOMAIN users) =>
          (resp.code = 200 /\ PageOf(LikedMatch(resp.by)))

\* C16: the friend-comment feed (first page, limit not below count) holds
\* exactly the posts whose author is no friend of the requester and that
\* list a comment by a friend, each once, each with exactly its comments
\* by friends, and count is the number of these posts.
FriendCommentFeedExact ==
    (resp.op = "getFriendCommentFeed" /\ resp.by \in DOMAIN users) =>
        /\ resp.code = 200
        /\ resp.data.count = Cardinality(CommentMatch(resp.by))
        /\ \A i \in 1..Len(resp.data.items) :
              /\ resp.data.items[i].id \in CommentMatch(resp.by)
              /\ resp.data.items[i].comments
                     = FriendComments(resp.by, resp.data.items[i].id)
              /\ \A j \in 1..Len(resp.data.items) :
                     resp.data.items[i].id = resp.data.items[j].id => i = j
        /\ (resp.id = 1 /\ resp.arg >= resp.data.count) =>
              {resp.data.items[i].id : i \in 1..Len(resp.data.items)}
                  = CommentMatch(resp.by)

\* the identifiers of the posts of the last response, as a set
ItemIds(r) == {r.data.items[i].id : i \in 1..Len(r.data.items)}

\* C14: over an unchanging store, pages p and p+1 of the direct feed of one
\* requester with one limit, read one after the other, share no post, and
\* no post of page p+1 is newer than a post of page p, also when posts
\* share their creation time.
PagesNeverOverlap ==
    [][(/\ resp.op = "getFeed" /\ resp.code = 200
        /\ resp'.op = "getFeed" /\ resp'.code = 200
        /\ resp'.by = resp.by
        /\ resp'.arg = resp.arg
        /\ resp'.id = resp.id + 1) =>
          /\ ItemIds(resp) \cap ItemIds(resp') = {}
          /\ \A i \in 1..Len(resp.data.items), j \in 1..Len(resp'.data.items) :
                resp.data.items[i].createdAt >= resp'.data.items[j].createdAt]_vars

\* C15: the direct feed of an existing requester holds only posts whose
\* author is one of the requester's friends, each once; count is the number
\* of all such posts; the first page with limit not below count holds all
\* of them.
DirectFeedExact ==
    (resp.op = "getFeed" /\ resp.by \in DOMAIN users) =>
        LET want == {p \in DOMAIN posts :
                        Includes(users[resp.by].friends, posts[p].author)}
        IN /\ resp.code = 200
           /\ ItemIds(resp) \subseteq want
           /\ Cardinality(ItemIds(resp)) = Len(resp.data.items)
           /\ resp.data.count = Cardinality(want)
           /\ (resp.id = 1 /\ resp.arg >= resp.data.count) => ItemIds(resp) = want

\* the requester and a friend have one post each; the feed holds the
\* friend's post only
FeedOfFriendPostOnly ==
    /\ resp.op = "getFeed"
    /\ resp.code = 200
    /\ resp.data.count = 1
    /\ Len(resp.data.items) = 1
    /\ \E p \in DOMAIN posts : posts[p].author = resp.by
    /\ posts[resp.data.items[1].id].author # resp.by

\* C17: the friend-liked feed of an existing requester holds only posts
\* that a friend of the requester likes and whose author is not a friend,
\* each once, with count the number of all such posts and the first page
\* with limit not below count holding all of them; accepting a friend
\* request changes no post, and the feed one party of the accepted request
\* reads next holds no post of the other party.
FriendLikedFeedExact ==
    [][/\ (resp'.op = "getFriendLikedPosts" /\ resp'.by \in DOMAIN users) =>
             LET friends == users[resp'.by].friends
                 want == {p \in DOMAIN posts :
                             /\ \E u \in Range(posts[p].likedBy) : Includes(friends, u)
                             /\ ~Includes(friends, posts[p].author)}
             IN /\ resp'.code = 200
                /\ ItemIds(resp') \subseteq want
                /\ Cardinality(ItemIds(resp')) = Len(resp'.data.items)
                /\ resp'.data.count = Cardinality(want)
                /\ (resp'.id = 1 /\ resp'.arg >= resp'.data.count) =>
                      ItemIds(resp') = want
       /\ (resp'.op = "acceptFriendRequest" /\ resp'.code = 200) => posts' = posts
       /\ (/\ resp.op = "acceptFriendRequest" /\ resp.code = 200
           /\ resp'.op = "getFriendLikedPosts" /\ resp'.code = 200
           /\ resp'.by \in {requests[resp.id].sender, requests[resp.id].receiver}) =>
             \A p \in ItemIds(resp') :
                 posts[p].author \notin
                     {requests[resp.id].sender, requests[resp.id].receiver} \ {resp'.by}]_vars

\* a post liked by a friend of the requester whose author has become a
\* friend by an accepted request, and a feed that no longer holds it
LikedPostGoneAfterAccept ==
    /\ resp.op = "getFriendLikedPosts"
    /\ resp.code = 200
    /\ resp.id = 1
    /\ resp.data.items = <<>>
    /\ \E p \in DOMAIN posts, r \in DOMAIN requests :
          /\ posts[p].author # resp.by
          /\ Includes(users[resp.by].friends, posts[p].author)
          /\ \E u \in Range(posts[p].likedBy) :
                u # posts[p].author /\ Includes(users[resp.by].friends, u)
          /\ requests[r].status = "accepted"
          /\ {requests[r].sender, requests[r].receiver} = {resp.by, posts[p].author}

\* C18: a feed operation called for a requester that is not stored answers
\* 404 (NotFound) and carries no feed data.
FeedWithoutRequesterNotFound ==
    (/\ resp.op \in {"getFeed", "getFriendCommentFeed", "getFriendLikedPosts"}
     /\ resp.by \notin DOMAIN users) =>
        /\ resp.code = 404
        /\ resp.data.items = <<>>

\* C19: no User document of a response, returned directly or attached as
\* the author of a feed item, carries a password field.
NoPasswordInResponse ==
    /\ \A i \in 1..Len(resp.data.users) : "password" \notin DOMAIN resp.data.users[i]
    /\ \A i \in 1..Len(resp.data.items) :
          \A j \in 1..Len(resp.data.items[i].author) :
              "password" \notin DOMAIN resp.data.items[i].author[j]

\* posts and the posts sets of their authors: creation and the two deletions
NextPostSet ==
    \/ nextUser <= MaxUsers /\ register("ann")
    \/ \E by \in UserIds, c \in Contents : createPost(by, c, nextPost)
    \/ \E by \in UserIds, id \in PostIds : deletePost(by, id)
    \/ \E by \in UserIds, id \in UserIds : deleteUser(by, id)

SpecPostSet == Init /\ [][NextPostSet]_vars

\* C22: no step changes the author of a post that exists before and after
\* it.
PostAuthorImmutable ==
    [][\A p \in DOMAIN posts \cap DOMAIN posts' :
          posts'[p].author = posts[p].author]_vars

\* C23: updateUser and deleteUser on a stored user by another requester
\* answer 403 "not authorized" and change no user, post, comment or friend
\* request.
NonOwnerRefused ==
    [][(/\ resp'.op \in {"updateUser", "deleteUser"}
        /\ resp'.id \in DOMAIN users
        /\ resp'.id # resp'.by) =>
          /\ resp'.code = 403
          /\ resp'.msg = "not authorized"
          /\ UNCHANGED <<users, posts, comments, requests>>]_vars

\* a deletion of a friend's account refused: the account and the
\* friendship are still there
NonOwnerDeleteRefused ==
    /\ resp.op = "deleteUser"
    /\ resp.code = 403
    /\ resp.id \in DOMAIN users
    /\ resp.by \in DOMAIN users
    /\ Includes(users[resp.id].friends, resp.by)
    /\ \E r \in DOMAIN requests : requests[r].receiver = resp.id

\* C24: after deletePost of a stored post by its author answers 200, the
\* post is not stored, its identifier is not in the author's posts, and no
\* stored comment has it as its post.
DeletePostRemovesAll ==
    [][(/\ resp'.op = "deletePost"
        /\ resp'.id \in DOMAIN posts
        /\ posts[resp'.id].author = resp'.by) =>
          /\ resp'.code = 200
          /\ resp'.id \notin DOMAIN posts'
          /\ resp'.by \in DOMAIN users' =>
                ~Includes(users'[resp'.by].posts, resp'.id)
          /\ \A c \in DOMAIN comments' : comments'[c].post # resp'.id]_vars

\* a post deleted by its author, who is stored, after a comment had been
\* written: no comment is left, every other post is
PostDeletedWithComment ==
    /\ resp.op = "deletePost"
    /\ resp.code = 200
    /\ resp.by \in DOMAIN users
    /\ nextComment > 1
    /\ comments = <<>>
    /\ DOMAIN users = KnownUsers
    /\ \A p \in KnownPosts \ {resp.id} : p \in DOMAIN posts

\* C25: for every stored user, the identifiers in the user's posts are
\* exactly those of the stored posts whose author is that user.
UserPostsAreAuthoredPosts ==
    \A u \in DOMAIN users :
        Range(users[u].posts) = {p \in DOMAIN posts : posts[p].author = u}

\* a user who wrote two posts and deleted one of them
OnePostLeftAfterDelete ==
    /\ resp.op = "deletePost"
    /\ resp.code = 200
    /\ resp.by \in DOMAIN users
    /\ Len(users[resp.by].posts) = 1
    /\ posts[users[resp.by].posts[1]].author = resp.by

\* C29: no post of a friend-comment feed or friend-liked feed is a post of
\* the requester.
OwnPostsNeverInFeeds ==
    (resp.op \in {"getFriendCommentFeed", "getFriendLikedPosts"} /\ resp.code = 200) =>
        \A p \in ItemIds(resp) : posts[p].author # resp.by

\* C30: updateUser by the owner leaves the user's friends and posts, and
\* every other user's document, as they were.
UpdateUserKeepsRelations ==
    [][(resp'.op = "updateUser" /\ resp'.code = 200) =>
          /\ DOMAIN users' = DOMAIN users
          /\ users'[resp'.id].friends = users[resp'.id].friends
          /\ users'[resp'.id].posts = users[resp'.id].posts
          /\ \A u \in DOMAIN users \ {resp'.id} : users'[u] = users[u]]_vars

\* friend requests among three accounts, decided by any of them
NextThirdParty ==
    \/ register("ann")
    \/ \E by \in AccountIds, r \in KnownUsers : sendFriendRequest(by, r)
    \/ \E by \in AccountIds, id \in KnownRequests : acceptFriendRequest(by, id)
    \/ \E by \in AccountIds, id \in KnownRequests : rejectFriendRequest(by, id)

SpecThirdParty == Init /\ [][NextThirdParty]_vars

\* C26: acceptFriendRequest and rejectFriendRequest on a stored request
\* answer 200 whoever the authenticated caller is, and the stored users
\* and requests after the call are determined by the request alone: the
\* status is set, and on acceptance each of sender and receiver has the
\* other in its friends.
DecisionIgnoresCaller ==
    [][(/\ resp'.op \in {"acceptFriendRequest", "rejectFriendRequest"}
        /\ resp'.id \in DOMAIN requests) =>
          LET s == requests[resp'.id].sender
              r == requests[resp'.id].receiver
              accept == resp'.op = "acceptFriendRequest"
          IN /\ resp'.code = 200
             /\ requests' = [requests EXCEPT ![resp'.id].status =
                                 IF accept THEN "accepted" ELSE "rejected"]
             /\ users' = [u \in DOMAIN users |->
                             IF accept /\ u = s
                             THEN [users[u] EXCEPT !.friends = AddToSet(@, r)]
                             ELSE IF accept /\ u = r
                             THEN [users[u] EXCEPT !.friends = AddToSet(@, s)]
                             ELSE users[u]]]_vars

\* a request accepted by an account that is neither its sender nor its
\* receiver, who are friends of each other now
AcceptedByThirdParty ==
    /\ resp.op = "acceptFriendRequest"
    /\ resp.code = 200
    /\ resp.by \notin {requests[resp.id].sender, requests[resp.id].receiver}
    /\ Includes(users[requests[resp.id].sender].friends, requests[resp.id].receiver)
    /\ Includes(users[requests[resp.id].receiver].friends, requests[resp.id].sender)

\* two overlapping like toggles on the posts of two users
NextRace ==
    \/ nextUser <= MaxUsers /\ register("ann")
    \/ \E by \in UserIds : createPost(by, "old", nextPost)
    \/ \E c \in CallIds, by \in UserIds, id \in PostIds : toggleLikePostFind(c, by, id)
    \/ \E c \in CallIds : toggleLikePostSave(c)

SpecRace == Init /\ [][NextRace]_vars

\* acceptance await by await among three accounts, with a reader; friend
\* requests go to stored users
NextObserved ==
    \/ register("ann")
    \/ \E by \in AccountIds, r \in DOMAIN users : sendFriendRequest(by, r)
    \/ \E c \in CallIds, by \in AccountIds, id \in RequestIds :
          acceptFriendRequestUpdate(c, by, id)
    \/ \E c \in CallIds : acceptFriendRequestNext(c)
    \/ \E by \in AccountIds : getUsers(by)

SpecObserved == Init /\ [][NextObserved]_vars

\* acceptance and account deletion await by await between two users;
\* friend requests go to stored users
NextDeleteRace ==
    \/ nextUser <= MaxUsers /\ register("ann")
    \/ \E by \in UserIds, r \in DOMAIN users : sendFriendRequest(by, r)
    \/ \E c \in CallIds, by \in UserIds, id \in RequestIds :
          acceptFriendRequestUpdate(c, by, id)
    \/ \E c \in CallIds : acceptFriendRequestNext(c)
    \/ \E c \in CallIds, by \in UserIds, id \in UserIds : deleteUserFind(c, by, id)
    \/ \E c \in CallIds : deleteUserNext(c)

SpecDeleteRace == Init /\ [][NextDeleteRace]_vars

\* C21: no reader sees an acceptance half applied: when getUsers answers a
\* third user while an acceptance is suspended, it is never the case that
\* the sender's document lists the receiver and the receiver's document
\* does not list the sender.
NoPartialStateObserved ==
    [][(/\ resp'.op = "getUsers"
        /\ UNCHANGED <<users, requests, running>>) =>
          \A c \in DOMAIN running :
              LET s == running[c].sender
                  r == running[c].receiver
              IN ~(/\ running[c].op = "acceptFriendRequest"
                   /\ {s, r} \subseteq DOMAIN users \ {resp'.by}
                   /\ Includes(users[s].friends, r)
                   /\ ~Includes(users[r].friends, s))]_vars

\* C27: no user identifier occurs more than once in the likedBy of a post.
LikedByHasNoDuplicates ==
    \A p \in DOMAIN posts :
        \A u \in Range(posts[p].likedBy) : Count(posts[p].likedBy, u) <= 1

\* C28: when no request is suspended any more, the friends of every stored
\* user are stored users.
NoDeletedFriendAfterRace ==
    DOMAIN running = {} =>
        \A v \in DOMAIN users : Range(users[v].friends) \subseteq DOMAIN users

====
